---- MODULE Spec2Model ----
\* grovelog: the slog handlers built by NewHandler (handler.go), their
\* derivation by WithAttrs / WithGroup, and the steps of Handler.Handle with
\* the pooled marshalFields and the shared log.Logger sink, run by several
\* goroutines.
EXTENDS Integers, Sequences, FiniteSets, TLC

\* ---------------------------------------------------------------- bounds

\* Most Handlers (root included) one derivation tree holds.
MaxHandlers == 3
\* Most log calls one goroutine makes.
MaxCalls == 1
\* Most context.Contexts (context.Background() included) and most wrapped
\* errors one run builds.
MaxContexts == 4
MaxErrors == 2

\* Goroutines of the sequential and of the concurrent specification.
SeqThreads == {1}
Threads == {1, 2}
\* *[]byte values the sync.Pool can hand out, and backing arrays.
BufPtrs == Threads
Arrays == 1..(2 * Cardinality(Threads))

\* ---------------------------------------------------------------- values

JSON == "JSON"
Plain == "Plain"
Color == "Color"

LevelDebug == -4
LevelInfo == 0
LevelWarn == 4

\* slog.Attr: a key with a scalar value, a group of attributes, or the zero
\* Value (slog.Attr{}).
KV(k, v) == [Key |-> k, Kind |-> "any", Val |-> v, Group |-> <<>>]
GroupAttr(k, as) == [Key |-> k, Kind |-> "group", Val |-> "", Group |-> as]
ZeroAttr == [Key |-> "", Kind |-> "zero", Val |-> "", Group |-> <<>>]

\* A value of the context map (logCtx, map[string]any): a string or a
\* []slog.Attr; and util.KV(k, v), that is slog.Any(k, v), which makes a
\* group attribute of a []slog.Attr and a plain one of anything else.
StringValue(s) == [Kind |-> "any", Val |-> s, Group |-> <<>>]
GroupValue(as) == [Kind |-> "group", Val |-> "", Group |-> as]
AnyAttr(k, v) == [Key |-> k, Kind |-> v.Kind, Val |-> v.Val, Group |-> v.Group]

\* Value carried only by leaves that sit under an empty key.
Marked == "marked"

\* LogFormat of package grovelog/grovelog.
JSONFormat == "JSONFormat"
TextFormat == "TextFormat"
ColorFormat == "ColorFormat"

\* A value encoding/json has no encoding for (a channel, a func).
Unsupported == "chan"

\* time.Time of a record, as far as a clock layout reads it.
Time(hour, minute, second, milli) ==
  [hour |-> hour, minute |-> minute, second |-> second, milli |-> milli]

\* Options as NewHandler receives them: SlogOpts is a pointer (<<>> is nil)
\* to HandlerOptions, whose Level is a Leveler ({} is nil).
Options(slogOpts, timeFormat, format) ==
  [SlogOpts |-> slogOpts, TimeFormat |-> timeFormat, Format |-> format]
HandlerOptions(level) == <<[Level |-> level]>>

DefaultTimeFormat == "[15:05:05.000]"
\* A layout a caller configures.
ClockFormat == "15:04:05.000"

\* ---------------------------------------------------------------- inputs

Formats == {JSON, Plain, Color}
Levels == {LevelDebug, LevelInfo, LevelWarn}
GroupNames == {"", "a", "b"}

\* Options a root handler is built with.
OptsInputs ==
  {Options(<<>>, "", f) : f \in Formats}
    \cup {Options(HandlerOptions({}), "", Color),
          Options(HandlerOptions({LevelWarn}), "", Color)}

\* Attribute lists given to WithAttrs.
AttrsInputs ==
  { <<>>,
    <<KV("k", "1")>>,
    <<ZeroAttr, KV("c", "1"), KV("", Marked), KV("k", "2")>>,
    <<GroupAttr("g", <<KV("", Marked), KV("k", "1")>>)>>,
    <<GroupAttr("", <<KV("k", Marked)>>)>> }

\* Attributes of a record.
RecordInputs ==
  { <<>>,
    <<KV("k", "2")>>,
    <<KV("c", "1")>>,
    <<KV("", Marked), GroupAttr("g", <<GroupAttr("", <<KV("c", Marked)>>), KV("k", "2")>>)>>,
    <<GroupAttr("", <<KV("k", Marked)>>)>> }

\* Attribute bags a call context carries (util.ExtractLogAttrs).
CtxInputs == { <<>> }

\* Keys and values given to util.UpdateLogCtx.
CtxKeys == {"k", "c"}
CtxValues == {"1", "2"}

\* Record times.
Times == { Time(13, 4, 59, 7) }

\* Inputs of the concurrent specification.
ConcAttrsInputs == { <<KV("k", "1")>>, <<KV("c", "1")>> }
ConcRecordInputs == { <<>>, <<KV("k", "2")>> }
ConcGroupNames == {"a"}

\* Inputs of the specification of single Handle calls: contexts that carry
\* attributes, a value that cannot be encoded, a record whose attributes are
\* all dropped, two clock readings and a sink that may be closed.
CallOptsInputs ==
  {Options(<<>>, "", f) : f \in Formats} \cup {Options(<<>>, ClockFormat, Color)}
CallAttrsInputs == { <<KV("k", "1")>>, <<GroupAttr("g", <<KV("k", "1")>>)>> }
CallGroupNames == {"a"}
CallRecordInputs ==
  { <<>>,
    <<KV("k", "2")>>,
    <<KV("c", Unsupported)>>,
    <<KV("", Marked), GroupAttr("g", <<>>)>>,
    <<GroupAttr("g", <<GroupAttr("n", <<KV("k", "2")>>), KV("c", "1")>>)>> }
CallCtxInputs ==
  { <<>>,
    ("k" :> StringValue("3")),
    ("g" :> GroupValue(<<KV("k", "1")>>) @@ "g.k" :> StringValue("2")) }
CallTimes == { Time(13, 4, 59, 7), Time(9, 30, 30, 120) }

\* Inputs of the MultiHandler specification: the options NewWithFile is
\* called with, and what is logged through the handlers it builds.
Stdout == "stdout"
File == "file"
Outputs == {Stdout, File}
GroveOptions(level, timeFormat, format, out) ==
  [Level |-> level, TimeFormat |-> timeFormat, Format |-> format, Output |-> out]
GroveOptsInputs ==
  { GroveOptions(l, ClockFormat, f, Stdout) :
      l \in {LevelInfo, LevelWarn}, f \in {JSONFormat, TextFormat, ColorFormat} }
MultiAttrsInputs == { <<KV("k", "1")>> }
MultiGroupNames == {"a"}
MultiRecordInputs == { <<>>, <<KV("k", "2")>> }

\* ---------------------------------------------------------------- flattening

RECURSIVE Join(_, _)
\* strings.Join
Join(elems, sep) ==
  IF elems = <<>> THEN ""
  ELSE IF Len(elems) = 1 THEN elems[1]
  ELSE elems[1] \o sep \o Join(Tail(elems), sep)

\* One output entry: a key path and a value. The rich and the plain format
\* write one-segment paths; the structured format nests a path per object.
Entry(path, val) == [path |-> path, val |-> val]

RECURSIVE processAttr(_, _)
RECURSIVE processGroup(_, _)
\* A processAttr without its check of the key.
processAttrKeepEmpty(a, prefix) ==
  LET fullKey == prefix \o a.Key
  IN IF a.Kind = "group"
     THEN processGroup(a.Group, fullKey \o ".")
     ELSE << <<fullKey, a.Val>> >>

\* collectFields' processAttr closure: the writes fields[fullKey] = value it
\* makes, in order.
processAttr(a, prefix) ==
  IF a.Key = "" THEN <<>>
  ELSE LET fullKey == prefix \o a.Key
       IN IF a.Kind = "group"
          THEN processGroup(a.Group, fullKey \o ".")
          ELSE << <<fullKey, a.Val>> >>

\* A loop over the members that does not descend into a member group.
processGroupMembersOnly(group, prefix) ==
  LET ms == SelectSeq(group, LAMBDA a : a.Key # "" /\ a.Kind # "group")
  IN [i \in DOMAIN ms |-> <<prefix \o ms[i].Key, ms[i].Val>>]

\* The loop over a group's members inside processAttr.
processGroup(group, prefix) ==
  IF group = <<>> THEN <<>>
  ELSE (IF Head(group).Key # "" THEN processAttr(Head(group), prefix) ELSE <<>>)
         \o processGroup(Tail(group), prefix)

RECURSIVE processAll(_, _)
\* processAttr over a list of top-level attributes (r.Attrs, range h.attrs).
processAll(attrs, prefix) ==
  IF attrs = <<>> THEN <<>>
  ELSE processAttr(Head(attrs), prefix) \o processAll(Tail(attrs), prefix)

\* A Go map after a sequence of assignments: the last write to a key stays.
MapOf(writes) ==
  [k \in {writes[i][1] : i \in DOMAIN writes} |->
     LET last == CHOOSE i \in DOMAIN writes :
                   /\ writes[i][1] = k
                   /\ \A j \in DOMAIN writes : writes[j][1] = k => j <= i
     IN writes[last][2]]

\* A prefix made of the innermost group only.
groupPrefixLast(h) ==
  IF Len(h.groups) > 0 THEN h.groups[Len(h.groups)] \o "." ELSE ""

\* The prefix collectFields puts before every key: the group path joined by
\* "." and followed by ".".
groupPrefix(h) ==
  IF Len(h.groups) > 0 THEN Join(h.groups, ".") \o "." ELSE ""

\* Order in which collectFields processes its two sources.
collectOrder(recordWrites, handlerWrites) == recordWrites \o handlerWrites

\* Handler.collectFields: the record's attributes, then the handler's.
collectFields(h, recordAttrs) ==
  MapOf(collectOrder(processAll(recordAttrs, groupPrefix(h)),
                     processAll(h.attrs, groupPrefix(h))))

\* ---------------------------------------------------------------- context

RECURSIVE Orders(_)
\* The orders in which a range over a Go map can visit its keys.
Orders(keys) ==
  IF keys = {} THEN { <<>> }
  ELSE UNION { { <<k>> \o o : o \in Orders(keys \ {k}) } : k \in keys }

\* util.ExtractLogAttrs: one KV per entry of the context's logCtx map, in
\* the order the range visits them; nothing for a context without a map.
ExtractLogAttrs(lctx) ==
  { [i \in DOMAIN o |-> AnyAttr(o[i], lctx[o[i]])] : o \in Orders(DOMAIN lctx) }

\* ---------------------------------------------------------------- time

Digit(n) ==
  CASE n = 0 -> "0" [] n = 1 -> "1" [] n = 2 -> "2" [] n = 3 -> "3" [] n = 4 -> "4"
    [] n = 5 -> "5" [] n = 6 -> "6" [] n = 7 -> "7" [] n = 8 -> "8" [] n = 9 -> "9"
\* A number in two and in three decimal digits.
Pad2(n) == Digit((n \div 10) % 10) \o Digit(n % 10)
Pad3(n) == Digit((n \div 100) % 10) \o Pad2(n)

\* The chunks time.Format cuts a layout into: "15" is the hour, "04" the
\* minute, "05" the second, ".000" the milliseconds, anything else is copied.
Layout(format) ==
  CASE format = DefaultTimeFormat -> <<"[", "15", ":", "05", ":", "05", ".000", "]">>
    [] format = ClockFormat -> <<"15", ":", "04", ":", "05", ".000">>

\* What time.Format writes for one chunk of the layout.
FormatChunk(chunk, t) ==
  CASE chunk = "15" -> Pad2(t.hour)
    [] chunk = "04" -> Pad2(t.minute)
    [] chunk = "05" -> Pad2(t.second)
    [] chunk = ".000" -> "." \o Pad3(t.milli)
    [] OTHER -> chunk

\* time.Time.Format
Format(t, format) ==
  Join([i \in DOMAIN Layout(format) |-> FormatChunk(Layout(format)[i], t)], "")

\* Handler.formatTime
formatTime(h, t) ==
  Format(t, IF h.opts.TimeFormat = "" THEN DefaultTimeFormat ELSE h.opts.TimeFormat)

\* ---------------------------------------------------------------- encoding

\* The token json.Encoder.Encode ends its output with.
Newline == Entry(<<>>, "\n")
\* The encoding of a map without entries.
EmptyObject == Entry(<<>>, "{}")

\* encoding/json returns an error for a map that holds a value it cannot
\* encode.
encodeFails(fields) == \E k \in DOMAIN fields : fields[k] = Unsupported

RECURSIVE EncodeKeys(_, _)
\* encoding/json writes the keys of a map in one fixed order per key set.
EncodeKeys(fields, keys) ==
  IF keys = {} THEN <<>>
  ELSE LET k == CHOOSE x \in keys : TRUE
       IN <<Entry(<<k>>, fields[k])>> \o EncodeKeys(fields, keys \ {k})

\* encoder.Encode(fields): the object followed by a newline.
Encode(fields) ==
  IF DOMAIN fields = {} THEN <<EmptyObject, Newline>>
  ELSE Append(EncodeKeys(fields, DOMAIN fields), Newline)

\* ---------------------------------------------------------------- log/slog handlers

RECURSIVE stdAppendAttr(_, _)
RECURSIVE stdAppendAttrs(_, _)
\* What slog's JSON and text handlers emit for one attribute under the open
\* groups `path`: an Attr whose key and value are both zero is elided, a group
\* with an empty key is inlined, an empty group is dropped.
stdAppendAttr(a, path) ==
  IF a.Key = "" /\ a.Kind = "zero" THEN <<>>
  ELSE IF a.Kind = "group"
       THEN IF a.Group = <<>> THEN <<>>
            ELSE stdAppendAttrs(a.Group, IF a.Key # "" THEN Append(path, a.Key) ELSE path)
       ELSE <<Entry(Append(path, a.Key), a.Val)>>

stdAppendAttrs(attrs, path) ==
  IF attrs = <<>> THEN <<>>
  ELSE stdAppendAttr(Head(attrs), path) \o stdAppendAttrs(Tail(attrs), path)

\* The text handler writes a nested key as its path joined by ".".
textEntries(entries) ==
  [i \in DOMAIN entries |-> Entry(<<Join(entries[i].path, ".")>>, entries[i].val)]

\* ---------------------------------------------------------------- state

VARIABLES
  handlers,   \* the Handlers built so far; handlers[1] is the root
  last,       \* the last derivation call and the handler it returned
  pool,       \* *[]byte values in the sync.Pool
  bufs,       \* the slice each *[]byte points to: [arr, len]
  mem,        \* backing arrays; the length of mem[a] is its capacity
  outMu,      \* per log.Logger: the goroutine holding its mutex, or 0
  sink,       \* what the io.Writer has received, in order
  pc,         \* per goroutine: where it is in its log call
  calls,      \* per goroutine: the log calls it has made
  fields,     \* per goroutine: Handle's local fields
  jsonData,   \* per goroutine: marshalFields' local jsonData
  output,     \* per goroutine: Handle's local output
  closed,     \* whether the io.Writer has been closed
  result,     \* per goroutine: what its last Handle call did and returned
  groves,     \* the GroveHandlers built so far
  multis,     \* the MultiHandlers built so far: each a list of GroveHandlers
  mlast,      \* the last derivation call on a MultiHandler
  mcall,      \* the log call going through a MultiHandler
  outs,       \* per output of package grovelog: closed or not, and what it received
  built,      \* what the constructor of package grovelog returned to its caller
  ctxs,       \* the context.Contexts built so far; ctxs[1] is context.Background()
  lmaps,      \* the logCtx maps allocated so far
  errs,       \* the errors WrapCtx returned
  clast,      \* the last call of package util and the context it returned
  panicked    \* whether a call of package util has panicked

multiVars == <<groves, multis, mlast, mcall, outs, built>>
ctxVars == <<ctxs, lmaps, errs, clast, panicked>>
richVars == <<handlers, last, pool, bufs, mem, outMu, sink, pc, calls, fields,
              jsonData, output, closed, result>>
vars == <<handlers, last, pool, bufs, mem, outMu, sink, pc, calls, fields,
          jsonData, output, closed, result, groves, multis, mlast, mcall, outs,
          built, ctxs, lmaps, errs, clast, panicked>>

NilSlice == [arr |-> 0, len |-> 0]
NoCall == [op |-> "", recv |-> 0, attrs |-> <<>>, name |-> "", ret |-> 0]
Loggers == 1..(MaxHandlers + 1)
\* ret is the error Handle returned ("nil" for none, "" while it has not
\* returned); writes counts the Write calls on the sink, werr tells whether
\* the Write returned an error, encodes counts the calls of the encoder.
NoResult == [ret |-> "", writes |-> 0, werr |-> FALSE, encodes |-> 0]

\* NewHandler: the defaults it fills in, then the handler for the format.
NewHandler(opts) ==
  LET o1 == IF opts.SlogOpts = <<>>
            THEN [opts EXCEPT !.SlogOpts = HandlerOptions({LevelInfo})]
            ELSE opts
      o2 == IF o1.TimeFormat = ""
            THEN [o1 EXCEPT !.TimeFormat = DefaultTimeFormat]
            ELSE o1
  IN [kind |-> IF o2.Format \in {JSON, Plain} THEN o2.Format ELSE Color,
      opts |-> o2, l |-> 1, groups |-> <<>>, attrs |-> <<>>,
      bufferPool |-> 1, mu |-> 1, from |-> 0]

\* No log call through a MultiHandler yet.
NoMultiCall ==
  [m |-> 0, level |-> LevelInfo, attrs |-> <<>>, n |-> 0, pc |-> "idle", i |-> 0,
   invoked |-> <<>>, ret |-> ""]
NoMultiDerived ==
  [op |-> "", recv |-> 0, attrs |-> <<>>, name |-> "", ret |-> 0, before |-> <<>>]
OpenOutputs == [o \in Outputs |-> [closed |-> FALSE, data |-> <<>>]]
\* Nothing has been constructed in package grovelog/grovelog. via names the
\* constructor, opts is the caller's options value after the call, logger
\* the MultiHandler of the returned Logger (0 for nil), closer the returned
\* io.Closer ("" for nil), err the returned error; opened remembers whether
\* os.OpenFile succeeded.
NoBuilt ==
  [via |-> "", opts |-> GroveOptions(LevelInfo, "", JSONFormat, Stdout), logger |-> 0,
   closer |-> "", err |-> "", opened |-> FALSE]
\* context.Background() carries no logCtx. has tells whether Value(logCtxKey)
\* is a logCtx, lmap which map it is (0: none), from the parent context.
Background == [has |-> FALSE, lmap |-> 0, from |-> 0]
\* No call of package util yet. before is not state of the code: it keeps
\* the attributes every context carried when the call was made.
NoCtxCall == [op |-> "", recv |-> 0, key |-> "", val |-> "", err |-> 0, ret |-> 0,
              before |-> <<>>]

\* The handlers of the root package, as NewHandler leaves them.
RichInit(optsInputs) ==
  /\ \E o \in optsInputs : handlers = <<NewHandler(o)>>
  /\ last = NoCall
  /\ pool = {}
  /\ bufs = [b \in BufPtrs |-> NilSlice]
  /\ mem = [a \in Arrays |-> <<>>]
  /\ outMu = [l \in Loggers |-> 0]
  /\ sink = <<>>
  /\ pc = [t \in Threads |-> "idle"]
  /\ calls = [t \in Threads |-> <<>>]
  /\ fields = [t \in Threads |-> <<>>]
  /\ jsonData = [t \in Threads |-> NilSlice]
  /\ output = [t \in Threads |-> <<>>]
  /\ closed = FALSE
  /\ result = [t \in Threads |-> NoResult]

\* No handler of package grovelog/grovelog has been built.
MultiNone ==
  /\ groves = <<>>
  /\ multis = <<>>
  /\ mlast = NoMultiDerived
  /\ mcall = NoMultiCall
  /\ outs = OpenOutputs
  /\ built = NoBuilt

\* No context has been derived and no error wrapped.
CtxNone ==
  /\ ctxs = <<Background>>
  /\ lmaps = <<>>
  /\ errs = <<>>
  /\ clast = NoCtxCall
  /\ panicked = FALSE

InitWith(optsInputs) == RichInit(optsInputs) /\ MultiNone /\ CtxNone

Init == InitWith(OptsInputs)

\* ---------------------------------------------------------------- derivation

\* An Enabled that leaves out the minimum level itself.
EnabledStrict(h, level) ==
  LET minLevel == IF h.opts.SlogOpts # <<>> /\ h.opts.SlogOpts[1].Level # {}
                  THEN CHOOSE l \in h.opts.SlogOpts[1].Level : TRUE
                  ELSE LevelInfo
  IN level > minLevel

\* Handler.Enabled
Enabled(h, level) ==
  LET minLevel == IF h.opts.SlogOpts # <<>> /\ h.opts.SlogOpts[1].Level # {}
                  THEN CHOOSE l \in h.opts.SlogOpts[1].Level : TRUE
                  ELSE LevelInfo
  IN level >= minLevel

\* A WithAttrs that drops only the attributes without a value.
validAttrsValued(attrs) == SelectSeq(attrs, LAMBDA a : a.Kind # "zero")

\* A WithAttrs that keeps every attribute.
validAttrsAll(attrs) == attrs

\* The attributes WithAttrs keeps.
validAttrs(attrs) == SelectSeq(attrs, LAMBDA a : a.Key # "")

\* A WithAttrs that builds a log.Logger of its own for the derived handler.
withAttrsHandlerOwnLogger(hs, h, valid) ==
  [kind |-> Color, l |-> Len(hs) + 1, opts |-> hs[h].opts,
   groups |-> hs[h].groups, bufferPool |-> hs[h].bufferPool,
   attrs |-> hs[h].attrs \o valid, mu |-> Len(hs) + 1, from |-> h]

\* A WithAttrs that binds the added attributes to the group path open when
\* they are added, by storing them under keys that carry that path.
withAttrsHandlerQualified(hs, h, valid) ==
  [kind |-> Color, l |-> hs[h].l, opts |-> hs[h].opts,
   groups |-> hs[h].groups, bufferPool |-> hs[h].bufferPool,
   attrs |-> hs[h].attrs
               \o [i \in DOMAIN valid |->
                     [valid[i] EXCEPT !.Key = groupPrefix(hs[h]) \o @]],
   mu |-> Len(hs) + 1, from |-> h]

\* The Handler literal WithAttrs returns; its mu is a new zero RWMutex.
\* `from` is not a field of the code: it remembers the receiver.
withAttrsHandler(hs, h, valid) ==
  [kind |-> Color, l |-> hs[h].l, opts |-> hs[h].opts,
   groups |-> hs[h].groups, bufferPool |-> hs[h].bufferPool,
   attrs |-> hs[h].attrs \o valid, mu |-> Len(hs) + 1, from |-> h]

\* A WithGroup that leaves the accumulated attributes behind.
withGroupHandlerNoAttrs(hs, h, name) ==
  [kind |-> Color, l |-> hs[h].l, opts |-> hs[h].opts,
   attrs |-> <<>>, groups |-> Append(hs[h].groups, name),
   bufferPool |-> hs[h].bufferPool, mu |-> Len(hs) + 1, from |-> h]

\* The Handler literal WithGroup returns.
withGroupHandler(hs, h, name) ==
  [kind |-> Color, l |-> hs[h].l, opts |-> hs[h].opts,
   attrs |-> hs[h].attrs, groups |-> Append(hs[h].groups, name),
   bufferPool |-> hs[h].bufferPool, mu |-> Len(hs) + 1, from |-> h]

\* A WithAttrs that appends to the receiver's own list before it copies.
withAttrsHeapInPlace(hs, h, valid) ==
  Append([hs EXCEPT ![h].attrs = @ \o valid], withAttrsHandler(hs, h, valid))

\* The heap after WithAttrs / WithGroup allocated their result: the receiver's
\* slices are cloned, so no existing Handler is written.
withAttrsHeap(hs, h, valid) == Append(hs, withAttrsHandler(hs, h, valid))
withGroupHeap(hs, h, name) == Append(hs, withGroupHandler(hs, h, name))

Derived(op, h, attrs, name, ret) ==
  [op |-> op, recv |-> h, attrs |-> attrs, name |-> name, ret |-> ret]

\* Handler.WithAttrs
WithAttrs(h, attrs) ==
  /\ handlers[h].kind = Color
  /\ IF validAttrs(attrs) = <<>>
     THEN /\ handlers' = handlers
          /\ last' = Derived("WithAttrs", h, attrs, "", h)
     ELSE /\ Len(handlers) < MaxHandlers
          /\ handlers' = withAttrsHeap(handlers, h, validAttrs(attrs))
          /\ last' = Derived("WithAttrs", h, attrs, "", Len(handlers) + 1)
  /\ UNCHANGED <<pool, bufs, mem, outMu, sink, pc, calls, fields, jsonData, output,
                 closed, result>>
  /\ UNCHANGED multiVars
  /\ UNCHANGED ctxVars

\* Handler.WithGroup
WithGroup(h, name) ==
  /\ handlers[h].kind = Color
  /\ IF name = ""
     THEN /\ handlers' = handlers
          /\ last' = Derived("WithGroup", h, <<>>, name, h)
     ELSE /\ Len(handlers) < MaxHandlers
          /\ handlers' = withGroupHeap(handlers, h, name)
          /\ last' = Derived("WithGroup", h, <<>>, name, Len(handlers) + 1)
  /\ UNCHANGED <<pool, bufs, mem, outMu, sink, pc, calls, fields, jsonData, output,
                 closed, result>>
  /\ UNCHANGED multiVars
  /\ UNCHANGED ctxVars

\* WithAttrs of the slog JSON / text handler NewHandler returned, reached
\* through Logger.With (which returns early without arguments): the attributes
\* are formatted under the groups open now.
StdWithAttrs(h, attrs) ==
  /\ handlers[h].kind \in {JSON, Plain}
  /\ attrs # <<>>
  /\ Len(handlers) < MaxHandlers
  /\ handlers' = Append(handlers,
       [handlers[h] EXCEPT !.attrs = @ \o stdAppendAttrs(attrs, handlers[h].groups),
                           !.mu = Len(handlers) + 1, !.from = h])
  /\ last' = Derived("WithAttrs", h, attrs, "", Len(handlers) + 1)
  /\ UNCHANGED <<pool, bufs, mem, outMu, sink, pc, calls, fields, jsonData, output,
                 closed, result>>
  /\ UNCHANGED multiVars
  /\ UNCHANGED ctxVars

\* WithGroup of the slog JSON / text handler, reached through Logger.WithGroup
\* (which returns early for an empty name).
StdWithGroup(h, name) ==
  /\ handlers[h].kind \in {JSON, Plain}
  /\ name # ""
  /\ Len(handlers) < MaxHandlers
  /\ handlers' = Append(handlers,
       [handlers[h] EXCEPT !.groups = Append(@, name), !.mu = Len(handlers) + 1,
                           !.from = h])
  /\ last' = Derived("WithGroup", h, <<>>, name, Len(handlers) + 1)
  /\ UNCHANGED <<pool, bufs, mem, outMu, sink, pc, calls, fields, jsonData, output,
                 closed, result>>
  /\ UNCHANGED multiVars
  /\ UNCHANGED ctxVars

\* ---------------------------------------------------------------- logging

\* slog.Level.String for the named levels.
LevelString(level) ==
  CASE level = LevelDebug -> "DEBUG"
    [] level = LevelInfo -> "INFO"
    [] level = LevelWarn -> "WARN"
    [] OTHER -> "ERROR"

Call(h, level, attrs, ctx, time) ==
  [h |-> h, level |-> level, attrs |-> attrs, ctx |-> ctx, time |-> time]
CurCall(t) == calls[t][Len(calls[t])]
CallId(t) == <<t, Len(calls[t])>>
Chunk(id, part, data) == [call |-> id, part |-> part, data |-> data]

\* What a handler writes before the fields: level and message.
Header(c) == <<Entry(<<"level">>, LevelString(c.level) \o ":"), Entry(<<"msg">>, "m")>>
\* The rich Handler puts the formatted time in front.
TimeHeader(h, c) == <<Entry(<<"time">>, formatTime(h, c.time))>> \o Header(c)

\* slog.Logger.log: nothing happens unless the handler is enabled for the
\* level; otherwise the record is built and handed to Handle.
Log(t, h, level, attrs, ctx, time) ==
  /\ pc[t] = "idle"
  /\ Len(calls[t]) < MaxCalls
  /\ calls' = [calls EXCEPT ![t] = Append(@, Call(h, level, attrs, ctx, time))]
  /\ pc' = [pc EXCEPT ![t] = IF Enabled(handlers[h], level) THEN "handle" ELSE "idle"]
  /\ result' = [result EXCEPT ![t] = NoResult]
  /\ UNCHANGED <<handlers, last, pool, bufs, mem, outMu, sink, fields, jsonData, output,
                 closed>>
  /\ UNCHANGED multiVars
  /\ UNCHANGED ctxVars

\* A Handle that encodes whatever collectFields returned.
hasFieldsAlways(fs) == TRUE

\* Handle's test len(fields) > 0.
hasFields(fs) == DOMAIN fs # {}

\* Handler.Handle up to the call of marshalFields: the context's attributes
\* are added to the record, then the fields are collected.
Handle(t) ==
  /\ pc[t] = "handle"
  /\ handlers[CurCall(t).h].kind = Color
  /\ \E ctxAttrs \in ExtractLogAttrs(CurCall(t).ctx) :
       LET c == CurCall(t)
           fs == collectFields(handlers[c.h], c.attrs \o ctxAttrs)
       IN /\ fields' = [fields EXCEPT ![t] = fs]
          /\ pc' = [pc EXCEPT ![t] = IF hasFields(fs) THEN "marshal" ELSE "print"]
          /\ output' = [output EXCEPT ![t] = <<>>]
  /\ UNCHANGED <<handlers, last, pool, bufs, mem, outMu, sink, calls, jsonData,
                 closed, result>>
  /\ UNCHANGED multiVars
  /\ UNCHANGED ctxVars

\* Arrays some slice still points to; the others are garbage.
Collect(m, bs, pl, jd, readers) ==
  LET live == {bs[b].arr : b \in pl} \cup {jd[t].arr : t \in readers}
  IN [a \in Arrays |-> IF a \in live THEN m[a] ELSE <<>>]

Max(a, b) == IF a >= b THEN a ELSE b
Zeros(n) == [i \in 1..n |-> Entry(<<>>, "")]

\* What marshalFields does with the buffer once it has read jsonData.
releaseBuffer(pl, b) == pl \cup {b}

\* A Handle that goes on to Println after marshalFields failed.
afterEncodeErrorPrint(r) ==
  [next |-> "print", result |-> [r EXCEPT !.encodes = @ + 1]]

\* marshalFields returned an error: Handle returns it at once.
afterEncodeError(r) ==
  [next |-> "idle", result |-> [r EXCEPT !.encodes = @ + 1, !.ret = "EncodingError"]]

\* marshalFields from bufferPool.Get to bufferPool.Put: the buffer is an
\* element of the pool or a new one, it is cut to length 0, the encoder
\* appends to it (in place while the capacity lasts), jsonData is set to the
\* slice and the buffer goes back to the pool. When the encoder fails it has
\* written nothing, and the error goes back through Handle.
marshalFields(t, b) ==
  /\ pc[t] = "marshal"
  /\ \/ b \in pool
     \/ b \notin pool /\ \A x \in BufPtrs \ pool : b <= x
  /\ LET old == IF b \in pool THEN bufs[b] ELSE NilSlice
         cap == IF old.arr = 0 THEN 0 ELSE Len(mem[old.arr])
     IN IF encodeFails(fields[t])
        THEN /\ bufs' = [bufs EXCEPT ![b] = [arr |-> old.arr, len |-> 0]]
             /\ pool' = releaseBuffer(pool, b)
             /\ pc' = [pc EXCEPT ![t] = afterEncodeError(result[t]).next]
             /\ result' = [result EXCEPT ![t] = afterEncodeError(result[t]).result]
             /\ UNCHANGED <<jsonData, mem>>
        ELSE LET data == Encode(fields[t])
                 n == Len(data)
                 busy == {bufs[x].arr : x \in pool \ {b}}
                           \cup {jsonData[u].arr : u \in {u \in Threads : pc[u] = "copy"}}
                 a == IF n <= cap THEN old.arr
                      ELSE CHOOSE x \in Arrays \ busy : \A y \in Arrays \ busy : x <= y
                 content == IF n <= cap THEN data \o SubSeq(mem[a], n + 1, cap)
                            ELSE data \o Zeros(Max(n, 2 * cap) - n)
                 new == [arr |-> a, len |-> n]
                 bufs1 == [bufs EXCEPT ![b] = new]
                 jd1 == [jsonData EXCEPT ![t] = new]
                 pool1 == releaseBuffer(pool, b)
             IN /\ bufs' = bufs1
                /\ jsonData' = jd1
                /\ pool' = pool1
                /\ mem' = Collect([mem EXCEPT ![a] = content], bufs1, pool1 \cup {b}, jd1,
                                  {u \in Threads : pc[u] = "copy"} \cup {t})
                /\ pc' = [pc EXCEPT ![t] = "copy"]
                /\ result' = [result EXCEPT ![t].encodes = @ + 1]
  /\ UNCHANGED <<handlers, last, outMu, sink, calls, fields, output, closed>>
  /\ UNCHANGED multiVars
  /\ UNCHANGED ctxVars

\* The rest of marshalFields: the trailing newline is cut off jsonData and
\* what jsonData points to now is copied into the result.
marshalCopy(t) ==
  /\ pc[t] = "copy"
  /\ LET jd == jsonData[t]
         bytes == SubSeq(mem[jd.arr], 1, jd.len)
         cut == IF Len(bytes) > 0 /\ bytes[Len(bytes)] = Newline
                THEN SubSeq(bytes, 1, Len(bytes) - 1)
                ELSE bytes
         jd1 == [jsonData EXCEPT ![t] = NilSlice]
     IN /\ output' = [output EXCEPT ![t] = cut]
        /\ jsonData' = jd1
        /\ mem' = Collect(mem, bufs, pool, jd1, {u \in Threads : pc[u] = "copy"} \ {t})
  /\ pc' = [pc EXCEPT ![t] = "print"]
  /\ UNCHANGED <<handlers, last, pool, bufs, outMu, sink, calls, fields, closed, result>>
  /\ UNCHANGED multiVars
  /\ UNCHANGED ctxVars

\* h.l.Println: the log.Logger takes its mutex and calls Write on the sink
\* with the whole line; a closed sink returns an error and takes nothing.
Println(t) ==
  /\ pc[t] = "print"
  /\ LET l == handlers[CurCall(t).h].l
     IN /\ outMu[l] = 0
        /\ outMu' = [outMu EXCEPT ![l] = t]
  /\ sink' = IF closed THEN sink
             ELSE Append(sink, Chunk(CallId(t), 1, TimeHeader(handlers[CurCall(t).h], CurCall(t))))
  /\ result' = [result EXCEPT ![t].writes = @ + 1, ![t].werr = closed]
  /\ pc' = [pc EXCEPT ![t] = "write"]
  /\ UNCHANGED <<handlers, last, pool, bufs, mem, calls, fields, jsonData, output, closed>>
  /\ UNCHANGED multiVars
  /\ UNCHANGED ctxVars

\* Println has no result: whatever the Write returned, Handle returns nil.
printlnReturn(werr) == "nil"

\* The Write ends, the mutex is released and Handle returns.
PrintlnDone(t) ==
  /\ pc[t] = "write"
  /\ sink' = IF result[t].werr THEN sink
             ELSE Append(sink, Chunk(CallId(t), 2, output[t]))
  /\ outMu' = [outMu EXCEPT ![handlers[CurCall(t).h].l] = 0]
  /\ result' = [result EXCEPT ![t].ret = printlnReturn(result[t].werr)]
  /\ pc' = [pc EXCEPT ![t] = "idle"]
  /\ UNCHANGED <<handlers, last, pool, bufs, mem, calls, fields, jsonData, output, closed>>
  /\ UNCHANGED multiVars
  /\ UNCHANGED ctxVars

\* Handle of the slog JSON / text handler: built-ins, the preformatted
\* attributes, then the record's attributes under the open groups, written
\* in one Write under the handler's own mutex, whose error it returns. The
\* context is not read.
StdHandle(t) ==
  /\ pc[t] = "handle"
  /\ handlers[CurCall(t).h].kind \in {JSON, Plain}
  /\ LET c == CurCall(t)
         h == handlers[c.h]
         nested == h.attrs \o stdAppendAttrs(c.attrs, h.groups)
         out == IF h.kind = Plain THEN textEntries(nested) ELSE nested
     IN sink' = IF closed THEN sink
                ELSE sink \o <<Chunk(CallId(t), 1, Header(c)), Chunk(CallId(t), 2, out)>>
  /\ result' = [result EXCEPT ![t] = [ret |-> IF closed THEN "SinkError" ELSE "nil",
                                       writes |-> 1, werr |-> closed, encodes |-> 0]]
  /\ pc' = [pc EXCEPT ![t] = "idle"]
  /\ UNCHANGED <<handlers, last, pool, bufs, mem, outMu, calls, fields, jsonData, output,
                 closed>>
  /\ UNCHANGED multiVars
  /\ UNCHANGED ctxVars

\* The owner of the sink closes it (a file's Close).
Close ==
  /\ ~closed
  /\ closed' = TRUE
  /\ UNCHANGED <<handlers, last, pool, bufs, mem, outMu, sink, pc, calls, fields,
                 jsonData, output, result>>
  /\ UNCHANGED multiVars
  /\ UNCHANGED ctxVars

\* ---------------------------------------------------------------- specifications

Handlers == 1..Len(handlers)

\* One goroutine, every format, the full input sets.
Next ==
  \/ \E h \in Handlers, attrs \in AttrsInputs : WithAttrs(h, attrs)
  \/ \E h \in Handlers, name \in GroupNames : WithGroup(h, name)
  \/ \E h \in Handlers, attrs \in AttrsInputs : StdWithAttrs(h, attrs)
  \/ \E h \in Handlers, name \in GroupNames : StdWithGroup(h, name)
  \/ \E t \in SeqThreads, h \in Handlers, level \in Levels,
        attrs \in RecordInputs, ctx \in CtxInputs, time \in Times :
          Log(t, h, level, attrs, ctx, time)
  \/ \E t \in SeqThreads : Handle(t)
  \/ \E t \in SeqThreads, b \in BufPtrs : marshalFields(t, b)
  \/ \E t \in SeqThreads : marshalCopy(t)
  \/ \E t \in SeqThreads : Println(t)
  \/ \E t \in SeqThreads : PrintlnDone(t)
  \/ \E t \in SeqThreads : StdHandle(t)

Spec == Init /\ [][Next]_vars

\* Several goroutines on one rich root handler (TestConcurrentUsage).
InitConc == InitWith({Options(HandlerOptions({LevelInfo}), "", Color)})

NextConc ==
  \/ \E h \in Handlers, attrs \in ConcAttrsInputs : WithAttrs(h, attrs)
  \/ \E h \in Handlers, name \in ConcGroupNames : WithGroup(h, name)
  \/ \E t \in Threads, h \in Handlers, attrs \in ConcRecordInputs, time \in Times :
        Log(t, h, LevelInfo, attrs, <<>>, time)
  \/ \E t \in Threads : Handle(t)
  \/ \E t \in Threads, b \in BufPtrs : marshalFields(t, b)
  \/ \E t \in Threads : marshalCopy(t)
  \/ \E t \in Threads : Println(t)
  \/ \E t \in Threads : PrintlnDone(t)

SpecConc == InitConc /\ [][NextConc]_vars

\* One goroutine, single Handle calls with a context, a failing encoder and
\* a sink that can be closed.
InitCall == InitWith(CallOptsInputs)

NextCall ==
  \/ \E h \in Handlers, attrs \in CallAttrsInputs : WithAttrs(h, attrs)
  \/ \E h \in Handlers, name \in CallGroupNames : WithGroup(h, name)
  \/ \E h \in Handlers, attrs \in CallAttrsInputs : StdWithAttrs(h, attrs)
  \/ \E h \in Handlers, name \in CallGroupNames : StdWithGroup(h, name)
  \/ \E t \in SeqThreads, h \in Handlers, attrs \in CallRecordInputs,
        ctx \in CallCtxInputs, time \in CallTimes :
          Log(t, h, LevelInfo, attrs, ctx, time)
  \/ \E t \in SeqThreads : Handle(t)
  \/ \E t \in SeqThreads, b \in BufPtrs : marshalFields(t, b)
  \/ \E t \in SeqThreads : marshalCopy(t)
  \/ \E t \in SeqThreads : Println(t)
  \/ \E t \in SeqThreads : PrintlnDone(t)
  \/ \E t \in SeqThreads : StdHandle(t)
  \/ Close

SpecCall == InitCall /\ [][NextCall]_vars

\* ---------------------------------------------------------------- package grovelog/grovelog

\* NewGroveHandler: the options, a log.Logger on the output, and slog's JSON
\* and text handler on the same output. The two slog handlers go through the
\* same derivations, so std holds what both have preformatted and opened.
NewGroveHandler(opts) ==
  [opts |-> opts, attrs |-> <<>>, groups |-> <<>>, logger |-> opts.Output,
   std |-> [attrs |-> <<>>, groups |-> <<>>]]

\* A FileHandler that leaves the format as the caller chose it.
FileHandlerKeepFormat(opts) == NewGroveHandler([opts EXCEPT !.Output = File])

\* FileHandler, the file opened: the caller's options with the file as
\* output and the colored format replaced by JSON.
FileHandler(opts) ==
  LET fileOpts == [opts EXCEPT !.Format = IF @ = ColorFormat THEN JSONFormat ELSE @,
                               !.Output = File]
  IN NewGroveHandler(fileOpts)

\* FileHandler as a whole: os.OpenFile succeeds or not; without the file
\* there is no closer and no handler, only the error.
openFileHandler(opts, opened) ==
  IF ~opened THEN [closer |-> "", handler |-> <<>>, err |-> "OpenError"]
  ELSE [closer |-> File, handler |-> <<FileHandler(opts)>>, err |-> "nil"]

\* A NewWithFile that does not look at the error of FileHandler.
NewWithFileIgnoreError(opts, opened) ==
  LET fh == openFileHandler(opts, opened)
  IN [groves |-> <<NewGroveHandler(opts)>> \o fh.handler,
      multis |-> << [i \in 1..(1 + Len(fh.handler)) |-> i] >>,
      built |-> [via |-> "NewWithFile", opts |-> opts, logger |-> 1,
                 closer |-> fh.closer, err |-> "nil", opened |-> opened]]

\* NewWithFile: the file handler first; when that fails nothing is built and
\* the error is returned alone. Otherwise the console handler from the same
\* options, and a MultiHandler of the two.
NewWithFile(opts, opened) ==
  LET fh == openFileHandler(opts, opened)
  IN IF fh.err # "nil"
     THEN [groves |-> <<>>, multis |-> <<>>,
           built |-> [via |-> "NewWithFile", opts |-> opts, logger |-> 0,
                      closer |-> "", err |-> fh.err, opened |-> opened]]
     ELSE [groves |-> <<NewGroveHandler(opts)>> \o fh.handler,
           multis |-> << <<1, 2>> >>,
           built |-> [via |-> "NewWithFile", opts |-> opts, logger |-> 1,
                      closer |-> fh.closer, err |-> "nil", opened |-> opened]]

\* GroveHandler.Enabled
GroveEnabled(g, level) == level >= g.opts.Level

\* GroveHandler.WithAttrs
GroveWithAttrs(g, attrs) ==
  [g EXCEPT !.attrs = @ \o attrs,
            !.std.attrs = @ \o stdAppendAttrs(attrs, g.std.groups)]

\* GroveHandler.WithGroup
GroveWithGroup(g, name) ==
  [g EXCEPT !.groups = Append(@, name), !.std.groups = Append(@, name)]

\* attrs[a.Key] = a.Value.Any() over a list of attributes.
groveWrites(attrs) ==
  [i \in DOMAIN attrs |->
     <<attrs[i].Key, IF attrs[i].Kind = "group" THEN "[]slog.Attr" ELSE attrs[i].Val>>]

\* GroveHandler.Handle on the outputs os: what the outputs hold afterwards
\* and the error returned. The JSON and the text format are slog's handlers,
\* which return the error of the Write; the colored format swallows the
\* error of the encoder and Println drops the error of the Write.
GroveHandle(g, c, os) ==
  LET o == g.opts.Output
      nested == g.std.attrs \o stdAppendAttrs(c.attrs, g.std.groups)
      attrs == MapOf(groveWrites(c.attrs) \o groveWrites(g.attrs))
      attrsStr == IF DOMAIN attrs # {} /\ ~encodeFails(attrs)
                  THEN EncodeKeys(attrs, DOMAIN attrs) ELSE <<>>
      line == CASE g.opts.Format = JSONFormat -> Header(c) \o nested
                [] g.opts.Format = TextFormat -> Header(c) \o textEntries(nested)
                [] OTHER -> Header(c) \o attrsStr
      written == [os EXCEPT ![o].data = Append(@, line)]
  IN IF os[o].closed
     THEN [outs |-> os,
           err |-> IF g.opts.Format \in {JSONFormat, TextFormat} THEN "SinkError" ELSE "nil"]
     ELSE [outs |-> written, err |-> "nil"]

\* A MultiHandler.Enabled that asks for every child.
MultiEnabledAll(hs, level) ==
  \A i \in DOMAIN hs : GroveEnabled(groves[hs[i]], level)

RECURSIVE MultiEnabled(_, _)
\* MultiHandler.Enabled: the loop returns true at the first enabled child.
MultiEnabled(hs, level) ==
  IF hs = <<>> THEN FALSE
  ELSE IF GroveEnabled(groves[Head(hs)], level) THEN TRUE
       ELSE MultiEnabled(Tail(hs), level)

\* A loop that derives the children into the new list back to front.
withAttrsChildrenReversed(gs, hs, attrs) ==
  [i \in DOMAIN hs |-> GroveWithAttrs(gs[hs[Len(hs) + 1 - i]], attrs)]

\* The loops of MultiHandler.WithAttrs / WithGroup: handlers[i] is what the
\* i-th child returns for the same call.
withAttrsChildren(gs, hs, attrs) ==
  [i \in DOMAIN hs |-> GroveWithAttrs(gs[hs[i]], attrs)]
withGroupChildren(gs, hs, name) ==
  [i \in DOMAIN hs |-> GroveWithGroup(gs[hs[i]], name)]

\* The children are new GroveHandlers; the new MultiHandler lists them.
NewChildren(new) == [i \in DOMAIN new |-> Len(groves) + i]
MultiDerived(op, m, attrs, name) ==
  [op |-> op, recv |-> m, attrs |-> attrs, name |-> name, ret |-> Len(multis) + 1,
   before |-> multis[m]]

\* MultiHandler.WithAttrs
MultiWithAttrs(m, attrs) ==
  /\ Len(multis) < MaxHandlers
  /\ LET new == withAttrsChildren(groves, multis[m], attrs)
     IN /\ groves' = groves \o new
        /\ multis' = Append(multis, NewChildren(new))
  /\ mlast' = MultiDerived("WithAttrs", m, attrs, "")
  /\ UNCHANGED <<mcall, outs>>
  /\ UNCHANGED richVars
  /\ UNCHANGED built
  /\ UNCHANGED ctxVars

\* MultiHandler.WithGroup
MultiWithGroup(m, name) ==
  /\ Len(multis) < MaxHandlers
  /\ LET new == withGroupChildren(groves, multis[m], name)
     IN /\ groves' = groves \o new
        /\ multis' = Append(multis, NewChildren(new))
  /\ mlast' = MultiDerived("WithGroup", m, <<>>, name)
  /\ UNCHANGED <<mcall, outs>>
  /\ UNCHANGED richVars
  /\ UNCHANGED built
  /\ UNCHANGED ctxVars

\* slog.Logger.log on a MultiHandler: Handle is called when Enabled says so.
MultiLog(m, level, attrs) ==
  /\ mcall.pc = "idle"
  /\ mcall.n < MaxCalls
  /\ mcall' = [m |-> m, level |-> level, attrs |-> attrs, n |-> mcall.n + 1,
               pc |-> IF MultiEnabled(multis[m], level) THEN "loop" ELSE "idle",
               i |-> 1, invoked |-> <<>>, ret |-> ""]
  /\ UNCHANGED <<groves, multis, mlast, outs>>
  /\ UNCHANGED richVars
  /\ UNCHANGED built
  /\ UNCHANGED ctxVars

\* A loop that goes on to the next child whatever the child returned.
afterChildKeepGoing(err, i) == [pc |-> "loop", ret |-> "", i |-> i + 1]

\* The body of the loop in MultiHandler.Handle after handler.Handle
\* returned: an error ends the call.
afterChild(err, i) ==
  IF err # "nil" THEN [pc |-> "idle", ret |-> err, i |-> i]
  ELSE [pc |-> "loop", ret |-> "", i |-> i + 1]

\* One iteration of the loop in MultiHandler.Handle.
MultiHandleChild ==
  /\ mcall.pc = "loop"
  /\ mcall.i <= Len(multis[mcall.m])
  /\ LET g == groves[multis[mcall.m][mcall.i]]
         r == GroveHandle(g, mcall, outs)
         nx == afterChild(r.err, mcall.i)
     IN /\ outs' = r.outs
        /\ mcall' = [mcall EXCEPT !.invoked = Append(@, [pos |-> mcall.i, err |-> r.err]),
                                  !.pc = nx.pc, !.ret = nx.ret, !.i = nx.i]
  /\ UNCHANGED <<groves, multis, mlast>>
  /\ UNCHANGED richVars
  /\ UNCHANGED built
  /\ UNCHANGED ctxVars

\* The loop of MultiHandler.Handle is over: return nil.
MultiHandleReturn ==
  /\ mcall.pc = "loop"
  /\ mcall.i > Len(multis[mcall.m])
  /\ mcall' = [mcall EXCEPT !.pc = "idle", !.ret = "nil"]
  /\ UNCHANGED <<groves, multis, mlast, outs>>
  /\ UNCHANGED richVars
  /\ UNCHANGED built
  /\ UNCHANGED ctxVars

\* An output is closed: the io.Closer NewWithFile returned, or the console.
CloseOutput(o) ==
  /\ ~outs[o].closed
  /\ outs' = [outs EXCEPT ![o].closed = TRUE]
  /\ UNCHANGED <<groves, multis, mlast, mcall>>
  /\ UNCHANGED richVars
  /\ UNCHANGED built
  /\ UNCHANGED ctxVars

\* A MultiHandler: the zero value, or the one NewWithFile builds from a
\* console handler and a file handler.
InitMulti ==
  /\ RichInit({Options(<<>>, "", Color)})
  /\ \/ /\ groves = <<>> /\ multis = << <<>> >>
        /\ built = [NoBuilt EXCEPT !.via = "MultiHandler{}", !.logger = 1, !.err = "nil"]
     \/ \E opts \in GroveOptsInputs, opened \in BOOLEAN :
          /\ groves = NewWithFile(opts, opened).groves
          /\ multis = NewWithFile(opts, opened).multis
          /\ built = NewWithFile(opts, opened).built
  /\ mlast = NoMultiDerived
  /\ mcall = NoMultiCall
  /\ outs = OpenOutputs
  /\ CtxNone

Multis == 1..Len(multis)

NextMulti ==
  \/ \E m \in Multis, attrs \in MultiAttrsInputs : MultiWithAttrs(m, attrs)
  \/ \E m \in Multis, name \in MultiGroupNames : MultiWithGroup(m, name)
  \/ \E m \in Multis, level \in Levels, attrs \in MultiRecordInputs :
        MultiLog(m, level, attrs)
  \/ MultiHandleChild
  \/ MultiHandleReturn
  \/ \E o \in Outputs : CloseOutput(o)

SpecMulti == InitMulti /\ [][NextMulti]_vars

\* ---------------------------------------------------------------- package util

Contexts == 1..Len(ctxs)
Errors == 1..Len(errs)

\* getLogCtx and what ExtractLogAttrs ranges over: the logCtx map the context
\* carries, as it is now; nothing without a map or with a nil one.
getLogCtx(ms, cs, c) ==
  IF cs[c].has /\ cs[c].lmap # 0 THEN ms[cs[c].lmap] ELSE <<>>

\* maps.Copy(dst, src) on the heap of maps: every entry of src is assigned
\* into dst. A nil src has no entries.
mapsCopy(ms, dst, src) ==
  IF src = 0 THEN ms ELSE [ms EXCEPT ![dst] = ms[src] @@ @]

\* updateLogCtx(ctx, newCtx): with a logCtx in ctx, newCtx is copied into
\* that very map and the returned context carries the same map; without
\* one, the returned context carries newCtx itself. Assigning an entry
\* into a nil map panics.
updateLogCtx(ms, cs, c, newCtx) ==
  IF cs[c].has
  THEN IF cs[c].lmap = 0 /\ newCtx # 0 /\ DOMAIN ms[newCtx] # {}
       THEN [lmaps |-> ms, ctxs |-> cs, ret |-> 0, panic |-> TRUE]
       ELSE [lmaps |-> IF cs[c].lmap = 0 THEN ms ELSE mapsCopy(ms, cs[c].lmap, newCtx),
             ctxs |-> Append(cs, [has |-> TRUE, lmap |-> cs[c].lmap, from |-> c]),
             ret |-> Len(cs) + 1, panic |-> FALSE]
  ELSE [lmaps |-> ms,
        ctxs |-> Append(cs, [has |-> TRUE, lmap |-> newCtx, from |-> c]),
        ret |-> Len(cs) + 1, panic |-> FALSE]

\* The attributes every context carries now.
Bags == [c \in Contexts |-> getLogCtx(lmaps, ctxs, c)]

\* util.UpdateLogCtx(ctx, key, value): updateLogCtx with the new map
\* logCtx{key: value}.
UpdateLogCtx(c, key, value) ==
  /\ ~panicked
  /\ Len(ctxs) < MaxContexts
  /\ LET ms == Append(lmaps, key :> StringValue(value))
         r == updateLogCtx(ms, ctxs, c, Len(ms))
     IN /\ lmaps' = r.lmaps
        /\ ctxs' = r.ctxs
        /\ panicked' = r.panic
        /\ clast' = [op |-> "UpdateLogCtx", recv |-> c, key |-> key, val |-> value,
                     err |-> 0, ret |-> r.ret, before |-> Bags]
  /\ UNCHANGED errs
  /\ UNCHANGED richVars
  /\ UNCHANGED multiVars

\* util.WrapCtx(ctx, err): the error keeps the map of ctx, not a copy (nil
\* for a context without one). snap is not a field of the code: it keeps
\* what the map held when the error was wrapped.
WrapCtx(c) ==
  /\ ~panicked
  /\ Len(errs) < MaxErrors
  /\ errs' = Append(errs, [ctx |-> IF ctxs[c].has THEN ctxs[c].lmap ELSE 0,
                           snap |-> getLogCtx(lmaps, ctxs, c)])
  /\ clast' = [op |-> "WrapCtx", recv |-> c, key |-> "", val |-> "",
               err |-> Len(errs) + 1, ret |-> 0, before |-> Bags]
  /\ UNCHANGED <<ctxs, lmaps, panicked>>
  /\ UNCHANGED richVars
  /\ UNCHANGED multiVars

\* util.ErrorCtx(ctx, err): for an error of WrapCtx (e > 0), updateLogCtx
\* with the map the error keeps; for any other error (e = 0), ctx itself.
ErrorCtx(c, e) ==
  /\ ~panicked
  /\ IF e = 0
     THEN /\ clast' = [op |-> "ErrorCtx", recv |-> c, key |-> "", val |-> "",
                       err |-> 0, ret |-> c, before |-> Bags]
          /\ UNCHANGED <<ctxs, lmaps, panicked>>
     ELSE /\ Len(ctxs) < MaxContexts
          /\ LET r == updateLogCtx(lmaps, ctxs, c, errs[e].ctx)
             IN /\ lmaps' = r.lmaps
                /\ ctxs' = r.ctxs
                /\ panicked' = r.panic
                /\ clast' = [op |-> "ErrorCtx", recv |-> c, key |-> "", val |-> "",
                             err |-> e, ret |-> r.ret, before |-> Bags]
  /\ UNCHANGED errs
  /\ UNCHANGED richVars
  /\ UNCHANGED multiVars

\* Contexts derived from context.Background() and errors wrapped with them;
\* no handler is used.
InitCtx == InitWith({Options(<<>>, "", Color)})

NextCtx ==
  \/ \E c \in Contexts, key \in CtxKeys, value \in CtxValues : UpdateLogCtx(c, key, value)
  \/ \E c \in Contexts : WrapCtx(c)
  \/ \E c \in Contexts, e \in {0} \cup Errors : ErrorCtx(c, e)

SpecCtx == InitCtx /\ [][NextCtx]_vars

\* ---------------------------------------------------------------- claims

Range(seq) == {seq[i] : i \in DOMAIN seq}
CallOf(chunk) == calls[chunk.call[1]][chunk.call[2]]
\* The chunks that carry the fields of a finished Handle call.
FieldChunks == {j \in DOMAIN sink : sink[j].part = 2}
RichChunks == {j \in FieldChunks : handlers[CallOf(sink[j]).h].kind = Color}
\* What a list of attributes flattens to under the handler's group path.
Flat(h, attrs) == MapOf(processAll(attrs, groupPrefix(h)))

\* C1 (as claimed): in the rich format, a key that both an accumulated
\* handler attribute and a record attribute flatten to is emitted with the
\* record's value.
C1_RecordWins ==
  \A j \in RichChunks :
    LET c == CallOf(sink[j])
        h == handlers[c.h]
    IN \A k \in DOMAIN Flat(h, h.attrs) \cap DOMAIN Flat(h, c.attrs) :
         \E e \in Range(sink[j].data) : e.path = <<k>> /\ e.val = Flat(h, c.attrs)[k]

\* C2: no step changes a Handler that exists already: its accumulated
\* attributes, its group path and every other field stay what they were, and
\* the heap only grows.
C2_DerivationKeepsHandlers ==
  [][/\ Len(handlers') >= Len(handlers)
     /\ \A h \in 1..Len(handlers) : handlers'[h] = handlers[h]]_vars

\* Two handlers derived from the root, the second by WithAttrs, differing in
\* what they accumulated, while the root still has nothing.
C2_Witness ==
  /\ Len(handlers) = 3
  /\ handlers[1].kind = Color
  /\ handlers[2].from = 1 /\ handlers[3].from = 1
  /\ last.op = "WithAttrs" /\ last.ret = 3
  /\ handlers[2].attrs # <<>>
  /\ handlers[3].attrs # handlers[2].attrs
  /\ handlers[1].attrs = <<>> /\ handlers[1].groups = <<>>

\* What a Handle call of the rich handler writes as its fields when it runs
\* alone.
AloneOutput(c) ==
  LET ctxAttrs == CHOOSE as \in ExtractLogAttrs(c.ctx) : TRUE
      fs == collectFields(handlers[c.h], c.attrs \o ctxAttrs)
  IN EncodeKeys(fs, DOMAIN fs)

AllDone == \A t \in Threads : pc[t] = "idle" /\ Len(calls[t]) = MaxCalls
\* Every goroutine logs through a child of the root that is its own.
OwnChildren ==
  /\ \A t \in Threads : \A i \in DOMAIN calls[t] :
       /\ handlers[calls[t][i].h].from = 1
       /\ calls[t][i].h = calls[t][1].h
  /\ \A t, u \in Threads : t # u => calls[t][1].h # calls[u][1].h

\* C3 (as claimed): once N goroutines have each handled M records through
\* their own child of one parent, the sink holds exactly N*M records, each of
\* them whole and equal to what its call writes when it runs alone.
C3_AllWellFormed ==
  (AllDone /\ OwnChildren) =>
    /\ Len(sink) = 2 * Cardinality(Threads) * MaxCalls
    /\ \A j \in DOMAIN sink :
         j % 2 = 1 =>
           /\ sink[j].part = 1 /\ sink[j + 1].part = 2
           /\ sink[j + 1].call = sink[j].call
           /\ sink[j + 1].data = AloneOutput(CallOf(sink[j]))

\* C4: what one Handle call writes is contiguous in the sink: the end of a
\* line directly follows its own start, and a started line is either the last
\* thing written or directly followed by its own end.
C4_WritesContiguous ==
  \A j \in DOMAIN sink :
    /\ sink[j].part = 2 => j > 1 /\ sink[j - 1].part = 1 /\ sink[j - 1].call = sink[j].call
    /\ sink[j].part = 1 =>
         \/ j = Len(sink)
         \/ sink[j + 1].part = 2 /\ sink[j + 1].call = sink[j].call

\* One goroutine is in the middle of its Write while another, logging
\* through a different Handler of the tree, is about to write.
C4_Witness ==
  \E t, u \in Threads :
    /\ pc[t] = "write" /\ pc[u] = "print"
    /\ CurCall(t).h # CurCall(u).h
    /\ Len(sink) = 1

\* C5 (as claimed): what marshalFields returns is the encoding of the fields
\* it was given, whatever other marshalFields calls run at the same time.
C5_MarshalIsolated ==
  \A t \in Threads :
    (pc[t] \in {"print", "write"} /\ DOMAIN fields[t] # {}) =>
      output[t] = EncodeKeys(fields[t], DOMAIN fields[t])

\* The minimum level the root was built with; Info when none was given.
ConfiguredLevel ==
  LET lv == handlers[1].opts.SlogOpts[1].Level
  IN IF lv = {} THEN LevelInfo ELSE CHOOSE l \in lv : TRUE
Finished(t, i) == i < Len(calls[t]) \/ pc[t] = "idle"
Written(t, i) == {j \in DOMAIN sink : sink[j].call = <<t, i>>}

C7_WithAttrs ==
  (last.op = "WithAttrs" /\ handlers[last.recv].kind = Color) =>
    LET kept == SelectSeq(last.attrs, LAMBDA a : a.Key # "")
        r == handlers[last.recv]
        n == handlers[last.ret]
    IN IF kept = <<>>
       THEN last.ret = last.recv
       ELSE /\ last.ret # last.recv
            /\ n.attrs = r.attrs \o kept
            /\ n.groups = r.groups
            /\ n.opts = r.opts /\ n.l = r.l /\ n.bufferPool = r.bufferPool

\* WithAttrs was given empty and non-empty keys, on a receiver that had
\* attributes already, and returned a new Handler.
C7_Witness ==
  /\ last.op = "WithAttrs" /\ handlers[last.recv].kind = Color
  /\ last.ret # last.recv
  /\ handlers[last.recv].attrs # <<>>
  /\ \E i, j \in DOMAIN last.attrs : last.attrs[i].Key = "" /\ last.attrs[j].Key # ""

\* C8: WithGroup of the rich Handler returns its receiver for an empty name;
\* otherwise a new Handler whose group path is the receiver's with the name
\* appended, whose attributes are the receiver's, and whose options, logger
\* and buffer pool are the receiver's.
C8_WithGroup ==
  (last.op = "WithGroup" /\ handlers[last.recv].kind = Color) =>
    LET r == handlers[last.recv]
        n == handlers[last.ret]
    IN IF last.name = ""
       THEN last.ret = last.recv
       ELSE /\ last.ret # last.recv
            /\ n.groups = Append(r.groups, last.name)
            /\ n.attrs = r.attrs
            /\ n.opts = r.opts /\ n.l = r.l /\ n.bufferPool = r.bufferPool

\* WithGroup with a non-empty name on a receiver that has attributes.
C8_Witness ==
  /\ last.op = "WithGroup" /\ handlers[last.recv].kind = Color
  /\ last.name # "" /\ last.ret # last.recv
  /\ handlers[last.recv].attrs # <<>>

\* The scalar top-level attributes of a record that have a key.
Scalars(c) == {i \in DOMAIN c.attrs : c.attrs[i].Kind = "any" /\ c.attrs[i].Key # ""}
Dotted(groups, k) == Join(Append(groups, k), ".")

AllAttrs(c) ==
  c.attrs \o (CHOOSE as \in ExtractLogAttrs(c.ctx) : TRUE) \o handlers[c.h].attrs

RECURSIVE Leaves(_)
\* The non-group attributes inside a list of attributes, each with the keys
\* that lead to it, as far as every key on the way is non-empty.
Leaves(attrs) ==
  UNION { IF a.Key = "" THEN {}
          ELSE IF a.Kind = "group"
               THEN { [path |-> <<a.Key>> \o l.path, val |-> l.val] : l \in Leaves(a.Group) }
               ELSE { [path |-> <<a.Key>>, val |-> a.Val] }
        : a \in Range(attrs) }

\* C11: the fields the rich Handler writes have pairwise different keys, and
\* they are exactly the non-group attributes of the call, each under the
\* handler's group path, the keys of the groups around it and its own key,
\* joined by "."; a group has no entry of its own.
C11_FlattenedKeys ==
  \A j \in RichChunks :
    LET c == CallOf(sink[j])
        h == handlers[c.h]
        data == sink[j].data
    IN /\ \A x, y \in DOMAIN data : data[x].path = data[y].path => x = y
       /\ {e.path : e \in Range(data)}
            = { <<Join(h.groups \o l.path, ".")>> : l \in Leaves(AllAttrs(c)) }
       /\ \A e \in Range(data) :
            \E l \in Leaves(AllAttrs(c)) :
              e.path = <<Join(h.groups \o l.path, ".")>> /\ e.val = l.val

\* A handler under a group has written a record that carries a group inside
\* a group next to a plain attribute.
C11_Witness ==
  \E j \in RichChunks :
    LET c == CallOf(sink[j])
    IN /\ handlers[c.h].groups # <<>>
       /\ \E i \in DOMAIN c.attrs :
            /\ c.attrs[i].Kind = "group"
            /\ \E m \in DOMAIN c.attrs[i].Group : c.attrs[i].Group[m].Kind = "group"
       /\ Len(sink[j].data) = 2

\* The fields collectFields returns for a call.
FieldsOf(c) ==
  collectFields(handlers[c.h], c.attrs \o (CHOOSE as \in ExtractLogAttrs(c.ctx) : TRUE))
\* Goroutines whose one Handle call, through a rich Handler, has returned.
Returned == {t \in Threads : pc[t] = "idle" /\ result[t].ret # ""
                               /\ handlers[CurCall(t).h].kind = Color}

\* C12: no Handle call of the rich Handler calls the encoder or the sink's
\* Write more than once. A call whose fields cannot be encoded returns the
\* encoder's error and the sink has nothing of it; any other call returns nil
\* after exactly one Write of the line, which the sink (unless it refused
\* the Write) holds exactly once, header and fields.
C12_EncodeErrorOrOneWrite ==
  /\ \A t \in Threads : result[t].writes <= 1 /\ result[t].encodes <= 1
  /\ \A t \in Returned :
       LET parts == {j \in DOMAIN sink : sink[j].call = CallId(t)}
       IN IF encodeFails(FieldsOf(CurCall(t)))
          THEN /\ result[t].ret = "EncodingError"
               /\ result[t].writes = 0
               /\ parts = {}
          ELSE /\ result[t].ret = "nil"
               /\ result[t].writes = 1
               /\ ~result[t].werr =>
                    /\ Cardinality(parts) = 2
                    /\ {sink[j].part : j \in parts} = {1, 2}

\* A call whose record carries a value without an encoding has returned the
\* encoder's error after one call of the encoder, and the sink is empty.
C12_Witness ==
  \E t \in Returned :
    /\ \E i \in DOMAIN CurCall(t).attrs : CurCall(t).attrs[i].Val = Unsupported
    /\ result[t].ret = "EncodingError" /\ result[t].encodes = 1
    /\ sink = <<>> /\ ~closed

\* C13 (as claimed): a Handle call whose Write on the sink failed does not
\* return nil.
C13_SinkErrorReturned ==
  \A t \in Threads :
    (pc[t] = "idle" /\ result[t].werr) => result[t].ret = "SinkError"

\* C17 (as claimed): whatever the format, a record handled by the handler
\* NewHandler returned, with a context that carries k=v, is written with
\* k=v among its fields.
C17_CtxAttrsAllFormats ==
  \A j \in FieldChunks :
    LET c == CallOf(sink[j])
    IN c.h = 1 =>
         \A k \in {x \in DOMAIN c.ctx : c.ctx[x].Kind = "any"} :
           \E e \in Range(sink[j].data) : e.path = <<k>> /\ e.val = c.ctx[k].Val

\* C18 (as claimed): in the rich format, a key that both an attribute of the
\* context and an attribute of the log call flatten to (and no attribute of
\* the handler) is written with the log call's value.
C18_RecordBeatsCtx ==
  \A j \in RichChunks :
    LET c == CallOf(sink[j])
        h == handlers[c.h]
        ctxAttrs == CHOOSE as \in ExtractLogAttrs(c.ctx) : TRUE
    IN \A k \in (DOMAIN Flat(h, ctxAttrs) \cap DOMAIN Flat(h, c.attrs))
                  \ DOMAIN Flat(h, h.attrs) :
         \E e \in Range(sink[j].data) : e.path = <<k>> /\ e.val = Flat(h, c.attrs)[k]

\* The timestamp [HH:MM:SS.mmm] of a record time.
BracketedClock(t) ==
  "[" \o Pad2(t.hour) \o ":" \o Pad2(t.minute) \o ":" \o Pad2(t.second)
      \o "." \o Pad3(t.milli) \o "]"

\* C19 (as claimed): a rich Handler built with an empty time format writes
\* the record's time as [HH:MM:SS.mmm]: hour, minute, second and millisecond
\* of the record, in that order.
C19_DefaultClock ==
  \A j \in DOMAIN sink :
    LET c == CallOf(sink[j])
        h == handlers[c.h]
    IN (sink[j].part = 1 /\ h.kind = Color /\ h.opts.TimeFormat = DefaultTimeFormat) =>
         \E e \in Range(sink[j].data) :
           e.path = <<"time">> /\ e.val = BracketedClock(c.time)

\* C20: a rich Handle call whose flattened fields are empty never calls the
\* encoder, and the fields it hands to the sink are empty: no line of the
\* rich format carries the encoding of an empty object.
C20_NoFieldsNoEncoding ==
  /\ \A t \in Returned :
       FieldsOf(CurCall(t)) = <<>> =>
         /\ result[t].encodes = 0
         /\ output[t] = <<>>
         /\ \A j \in DOMAIN sink :
              (sink[j].call = CallId(t) /\ sink[j].part = 2) => sink[j].data = <<>>
  /\ \A j \in RichChunks : \A e \in Range(sink[j].data) : e # EmptyObject

\* A record whose attributes are all dropped (an empty key, an empty group)
\* went through a handler without attributes, with an empty context, and
\* its line is in the sink.
C20_Witness ==
  \E t \in Returned :
    /\ Len(CurCall(t).attrs) = 2
    /\ FieldsOf(CurCall(t)) = <<>>
    /\ \E j \in DOMAIN sink : sink[j].call = CallId(t) /\ sink[j].part = 2

\* C14: MultiHandler.Handle invokes its children in list order, each at
\* most once, and only after every child before it returned nil. Once it
\* has returned, either a child returned an error, which is the error
\* returned, that child is the last one invoked and no later child was
\* invoked; or every child was invoked exactly once and nil is returned.
C14_StopsAtFirstError ==
  LET inv == mcall.invoked
      n == Len(multis[mcall.m])
  IN mcall.m # 0 =>
       /\ \A j \in DOMAIN inv : inv[j].pos = j
       /\ \A j \in DOMAIN inv : j < Len(inv) => inv[j].err = "nil"
       /\ Len(inv) <= n
       /\ mcall.ret # "" =>
            \/ /\ mcall.ret = "nil"
               /\ Len(inv) = n
               /\ \A j \in DOMAIN inv : inv[j].err = "nil"
            \/ /\ mcall.ret # "nil"
               /\ inv # <<>>
               /\ inv[Len(inv)].err = mcall.ret

\* The first of two children failed: the error is returned, the second
\* child was not invoked and its output is empty.
C14_Witness ==
  /\ mcall.m # 0 /\ mcall.pc = "idle"
  /\ Len(multis[mcall.m]) = 2
  /\ mcall.ret = "SinkError"
  /\ Len(mcall.invoked) = 1
  /\ outs[File].data = <<>> /\ ~outs[File].closed

\* C15: MultiHandler.Enabled is true exactly when some child is enabled for
\* the level, hence false without children; a log call below the level of
\* every child invokes no child.
C15_EnabledIffAnyChild ==
  /\ \A m \in Multis : \A level \in Levels :
       MultiEnabled(multis[m], level)
         <=> \E i \in DOMAIN multis[m] : GroveEnabled(groves[multis[m][i]], level)
  /\ \A m \in Multis : multis[m] = <<>> => \A level \in Levels : ~MultiEnabled(multis[m], level)
  /\ (mcall.m # 0 /\ ~\E i \in DOMAIN multis[mcall.m] :
                         GroveEnabled(groves[multis[mcall.m][i]], mcall.level))
       => mcall.invoked = <<>> /\ mcall.pc = "idle"

\* A log call at Info on a MultiHandler whose two children are at Warn has
\* ended without an invocation.
C15_Witness ==
  /\ mcall.m # 0 /\ mcall.pc = "idle" /\ mcall.level = LevelInfo
  /\ Len(multis[mcall.m]) = 2
  /\ groves[multis[mcall.m][1]].opts.Level = LevelWarn
  /\ mcall.invoked = <<>>

\* C16: WithAttrs / WithGroup of a MultiHandler return a new MultiHandler
\* with as many children as the receiver; its i-th child is a new handler
\* equal to what the receiver's i-th child returns for the same call; the
\* receiver's list is what it was before the call.
C16_DerivesEveryChild ==
  mlast.op # "" =>
    LET r == multis[mlast.recv]
        n == multis[mlast.ret]
    IN /\ mlast.ret # mlast.recv
       /\ r = mlast.before
       /\ Len(n) = Len(r)
       /\ \A i \in DOMAIN n :
            /\ n[i] \notin Range(r)
            /\ groves[n[i]] = IF mlast.op = "WithAttrs"
                              THEN GroveWithAttrs(groves[r[i]], mlast.attrs)
                              ELSE GroveWithGroup(groves[r[i]], mlast.name)

\* WithAttrs on a MultiHandler of two different children that was itself
\* derived by WithGroup.
C16_Witness ==
  /\ mlast.op = "WithAttrs" /\ mlast.recv > 1
  /\ Len(multis[mlast.recv]) = 2
  /\ groves[multis[mlast.recv][1]].groups # <<>>
  /\ groves[multis[mlast.ret][1]] # groves[multis[mlast.ret][2]]

\* The MultiHandlers that descend from the one NewWithFile returned.
BuiltByNewWithFile == built.via = "NewWithFile" /\ built.err = "nil"

\* C21: in every MultiHandler that comes from NewWithFile, the file handler
\* (second child) has the caller's options with the file as output and with
\* JSON in place of the colored format, any other format unchanged; the
\* console handler (first child) has the caller's options as they are, and
\* the caller's options are what was passed in.
C21_FileFormat ==
  BuiltByNewWithFile =>
    /\ built.opts \in GroveOptsInputs
    /\ \A m \in Multis :
         LET console == groves[multis[m][1]]
             file == groves[multis[m][2]]
         IN /\ console.opts = built.opts
            /\ console.opts.Output = Stdout
            /\ file.opts.Format = IF built.opts.Format = ColorFormat THEN JSONFormat
                                  ELSE built.opts.Format
            /\ file.opts = [built.opts EXCEPT !.Format = file.opts.Format, !.Output = File]

\* NewWithFile was given the colored format and a record has reached the
\* console and the file.
C21_Witness ==
  /\ BuiltByNewWithFile
  /\ built.opts.Format = ColorFormat
  /\ outs[Stdout].data # <<>> /\ outs[File].data # <<>>

\* C22: when the file cannot be opened NewWithFile returns the error with a
\* nil logger and a nil closer, no handler exists, and nothing is ever
\* logged or written.
C22_OpenErrorBuildsNothing ==
  (built.via = "NewWithFile" /\ ~built.opened) =>
    /\ built.err = "OpenError"
    /\ built.logger = 0 /\ built.closer = ""
    /\ groves = <<>> /\ multis = <<>>
    /\ mcall = NoMultiCall /\ mlast = NoMultiDerived
    /\ \A o \in Outputs : outs[o].data = <<>>

\* NewWithFile failed, and the program went on (the console was closed).
C22_Witness ==
  /\ built.via = "NewWithFile" /\ built.err = "OpenError"
  /\ outs[Stdout].closed

\* C23 (as claimed): marshalFields copies the encoding out of the pooled
\* buffer before it returns the buffer: while a call still has the copy
\* ahead of it, the buffer it reads from is not in the pool.
C23_CopyBeforePut ==
  \A t \in Threads :
    pc[t] = "copy" => \A b \in pool : bufs[b].arr # jsonData[t].arr

\* C24 (as claimed): every rich Handler of a derivation tree holds the lock
\* instance of the root.
C24_OneLock ==
  \A h \in Handlers : handlers[h].kind = Color => handlers[h].mu = handlers[1].mu

\* C25: in every rich Handler, however it was derived, no segment of the
\* group path is empty and no accumulated top-level attribute has an empty
\* key.
C25_NoEmptySegments ==
  \A h \in Handlers :
    handlers[h].kind = Color =>
      /\ \A i \in DOMAIN handlers[h].groups : handlers[h].groups[i] # ""
      /\ \A i \in DOMAIN handlers[h].attrs : handlers[h].attrs[i].Key # ""

\* A Handler built by a WithAttrs that was given empty keys among others,
\* a Handler with a group derived from it, and a last WithGroup("").
C25_Witness ==
  /\ Len(handlers) = 3 /\ handlers[1].kind = Color
  /\ handlers[2].attrs = <<KV("c", "1"), KV("k", "2")>>
  /\ handlers[3].from = 2 /\ handlers[3].groups # <<>>
  /\ last.op = "WithGroup" /\ last.name = "" /\ last.recv = 3 /\ last.ret = 3

\* Goroutines whose call has gone through collectFields of a rich Handler.
Collected ==
  {t \in Threads : calls[t] # <<>> /\ handlers[CurCall(t).h].kind = Color
                     /\ (pc[t] \in {"marshal", "copy", "print", "write"} \/ result[t].ret # "")}

\* C26 (as claimed): the flattening has one result per handler state,
\* record and context bag: whatever run produced the fields of a call, they
\* are the mapping that one fixed run on the same inputs produces.
C26_FlattenDeterministic ==
  \A t \in Collected : fields[t] = FieldsOf(CurCall(t))

\* C27 (as claimed): attributes that differ in their path (group path of the
\* handler, keys of the enclosing groups, own key) are written under
\* different keys, so a line has as many fields as the call has attributes
\* with different paths.
C27_CollisionFree ==
  \A j \in RichChunks :
    LET c == CallOf(sink[j])
    IN Cardinality({e.path : e \in Range(sink[j].data)})
         = Cardinality({l.path : l \in Leaves(AllAttrs(c))})

\* The attributes a WithAttrs added to Handler x when it derived Handler y.
AddedAttrs(x, y) ==
  SubSeq(handlers[y].attrs, Len(handlers[x].attrs) + 1, Len(handlers[y].attrs))
\* Handler y is what x.WithAttrs returned for attributes it kept.
IsWithAttrsOf(x, y) ==
  /\ handlers[y].from = x /\ handlers[y].kind = Color
  /\ handlers[y].groups = handlers[x].groups
  /\ Len(handlers[y].attrs) > Len(handlers[x].attrs)
\* Handler y is what x.WithGroup returned for a non-empty name.
IsWithGroupOf(x, y) ==
  /\ handlers[y].from = x /\ handlers[y].kind = Color
  /\ Len(handlers[y].groups) = Len(handlers[x].groups) + 1
\* h.WithGroup(g).WithAttrs(A) and h.WithAttrs(A).WithGroup(g), computed by
\* the two methods on the heap as it is now.
GroupThenAttrs(h, g, A) ==
  LET hs1 == withGroupHeap(handlers, h, g)
      hs2 == withAttrsHeap(hs1, Len(hs1), A)
  IN hs2[Len(hs2)]
AttrsThenGroup(h, g, A) ==
  LET hs1 == withAttrsHeap(handlers, h, A)
      hs2 == withGroupHeap(hs1, Len(hs1), g)
  IN hs2[Len(hs2)]
\* The chains h -> x -> y of the heap: WithAttrs then WithGroup, and
\* WithGroup then WithAttrs.
AttrsGroupChains ==
  {ch \in Handlers \X Handlers \X Handlers :
     IsWithAttrsOf(ch[1], ch[2]) /\ IsWithGroupOf(ch[2], ch[3])}
GroupAttrsChains ==
  {ch \in Handlers \X Handlers \X Handlers :
     IsWithGroupOf(ch[1], ch[2]) /\ IsWithAttrsOf(ch[2], ch[3])}
\* The name a WithGroup added to Handler x when it derived Handler y.
AddedGroup(y) == handlers[y].groups[Len(handlers[y].groups)]

\* C28: a rich Handler reached by WithAttrs(A) and then WithGroup(g) from a
\* Handler h collects, for every record, the fields that
\* h.WithGroup(g).WithAttrs(A) collects, and the other way round; the fields
\* of a call logged through it are those fields.
C28_AttrsGroupCommute ==
  /\ \A ch \in AttrsGroupChains :
       LET other == GroupThenAttrs(ch[1], AddedGroup(ch[3]), AddedAttrs(ch[1], ch[2]))
       IN /\ \A r \in RecordInputs :
               collectFields(handlers[ch[3]], r) = collectFields(other, r)
          /\ \A t \in Collected :
               CurCall(t).h = ch[3] /\ CurCall(t).ctx = <<>>
                 => fields[t] = collectFields(other, CurCall(t).attrs)
  /\ \A ch \in GroupAttrsChains :
       LET other == AttrsThenGroup(ch[1], AddedGroup(ch[2]), AddedAttrs(ch[2], ch[3]))
       IN /\ \A r \in RecordInputs :
               collectFields(handlers[ch[3]], r) = collectFields(other, r)
          /\ \A t \in Collected :
               CurCall(t).h = ch[3] /\ CurCall(t).ctx = <<>>
                 => fields[t] = collectFields(other, CurCall(t).attrs)

\* A record was logged through h.WithGroup("a").WithAttrs(k=1) and its
\* fields hold the accumulated attribute under the group path.
C28_Witness ==
  /\ <<1, 2, 3>> \in GroupAttrsChains
  /\ \E t \in Collected :
       /\ CurCall(t).h = 3
       /\ \E k \in DOMAIN fields[t] :
            k = groupPrefix(handlers[3]) \o handlers[3].attrs[1].Key

\* C29 (as claimed): UpdateLogCtx(ctx, k, v) returns a new context that
\* carries k=v, and every context that existed before the call, ctx and
\* the contexts derived from it among them, carries the attributes it
\* carried before the call.
C29_UpdateScoped ==
  clast.op = "UpdateLogCtx" /\ clast.ret # 0 =>
    /\ clast.ret = Len(ctxs) /\ clast.ret \notin DOMAIN clast.before
    /\ clast.key \in DOMAIN Bags[clast.ret]
    /\ Bags[clast.ret][clast.key] = StringValue(clast.val)
    /\ \A c \in DOMAIN clast.before : Bags[c] = clast.before[c]

\* C30 (as claimed): the attributes ErrorCtx(context.Background(), e)
\* extracts from an error e of WrapCtx are, whatever was called since,
\* the attributes its context carried when it was wrapped.
C30_SnapshotImmutable ==
  \A e \in Errors :
    getLogCtx(updateLogCtx(lmaps, ctxs, 1, errs[e].ctx).lmaps,
              updateLogCtx(lmaps, ctxs, 1, errs[e].ctx).ctxs,
              updateLogCtx(lmaps, ctxs, 1, errs[e].ctx).ret) = errs[e].snap

====
